---------------------------- MODULE Spec2Model ----------------------------
(***************************************************************************)
(* Branch and bound for QUBO problems (src/src/branchbound.rs).            *)
(*                                                                         *)
(* A QUBO is min f(x) = x^T Q x + c^T x over x in {0,1}^n.  The solver     *)
(* keeps a LIFO stack of nodes; each node carries a partial fixing, the    *)
(* lower bound and the relaxed solution of its parent's QP.                *)
(*                                                                         *)
(* Conventions of the model:                                               *)
(*  - vectors are functions on 0..n-1, as the code indexes them;           *)
(*  - objective values are integers (Q and c are integer here);            *)
(*  - a relaxed solution (QuboBBNode.solution) is stored in halves:        *)
(*    entry 0, 1, 2 stands for 0.0, 0.5, 1.0;                              *)
(*  - an f64 bound is a record [kind, val] so that -inf and NaN exist;     *)
(*    a finite bound b is kept as the least integer >= b, which decides    *)
(*    every comparison `b > v` against an integer v as b itself does.      *)
(***************************************************************************)
EXTENDS Integers, Sequences, FiniteSets, TLC

(***************************************************************************)
(* Bounds of the model.                                                    *)
(***************************************************************************)
MaxN == 2            \* number of binary variables: 1..MaxN
MaxDiag == 1         \* diagonal entries of Q: 0..MaxDiag
MaxOff == 1          \* off-diagonal entries of Q: -MaxOff..MaxOff
MaxLin == 1          \* entries of c: -MaxLin..MaxLin
MaxSeed == 1         \* options.seed: 0..MaxSeed
MaxSlack == 1        \* how far below the grid minimum the QP value may lie
MaxQpFailures == 1   \* failed QP solves per run
MaxVisited == 2      \* nodes_visited when a strategy is applied on its own: 0..MaxVisited
MaxEig == 12         \* least Hessian eigenvalue, in tenths: -MaxEig..MaxEig

VARIABLES
    qubo,                    \* BBSolver.qubo: [n, q, c]
    options,                 \* BBSolver.options: [branch_strategy, seed]
    best_solution,           \* BBSolver.best_solution
    best_solution_value,     \* BBSolver.best_solution_value
    nodes,                   \* BBSolver.nodes, top of the stack is the last element
    nodes_processed,         \* BBSolver.nodes_processed
    nodes_visited,           \* BBSolver.nodes_visited
    nodes_objective_evales,  \* BBSolver.nodes_objective_evales
    pc,                      \* position of the caller / of solve()
    node,                    \* solve(): the node handed over by get_next_node
    branch_id,               \* solve(): the index returned by make_branch
    warm,                    \* history: the argument of warm_start, if it was called
    timed_out,               \* history: solve() left its loop on the time budget
    iters,                   \* history: passes of the termination test that entered the loop
    qp_failures,             \* history: number of QP solves that failed
    node_path,               \* history: for each stack entry, its branch values from the root
    cur_path,                \* history: path of `node`
    popped,                  \* history: paths of the nodes popped so far
    solved,                  \* history: paths of the nodes handed to solve_node
    branched,                \* history: paths of the nodes handed to branch
    failed,                  \* history: paths of the nodes whose QP solve failed
    leaf_evals,              \* history: path of a leaf |-> times can_prune evaluated its vector
    replay,                  \* history, kept when two runs are replayed: the QP answers by
                             \* fixing and the sequence of pops and branchings
    run,                     \* history: 1 for the first solver, 2 for a second one on the same problem
    ref,                     \* history: what the first solver returned and held at its end
    convexify                \* the entry point's preprocessing: least Hessian eigenvalue of
                             \* the caller's problem and the diagonal shift chosen for it

vars == <<qubo, options, best_solution, best_solution_value, nodes,
          nodes_processed, nodes_visited, nodes_objective_evales, pc, node,
          branch_id, warm, timed_out, iters, qp_failures, node_path, cur_path,
          popped, solved, branched, failed, leaf_evals, replay, run, ref, convexify>>

solver_state == <<best_solution, best_solution_value, nodes, nodes_processed,
                  nodes_visited, nodes_objective_evales>>

history == <<warm, timed_out, iters, qp_failures, node_path, cur_path,
             popped, solved, branched, failed, leaf_evals, replay>>

(***************************************************************************)
(* f64 values that can be a lower bound.                                   *)
(***************************************************************************)
F64(v) == [kind |-> "finite", val |-> v]

NEG_INFINITY == [kind |-> "neg_inf", val |-> 0]

NAN == [kind |-> "nan", val |-> 0]

\* a > v for an f64 a and an integer v; false when a is NaN
F64Gt(a, v) == a.kind = "finite" /\ a.val > v

\* a <= v for an f64 a and an integer v; false when a is NaN
F64Le(a, v) == a.kind = "neg_inf" \/ (a.kind = "finite" /\ a.val <= v)

\* a < v for an f64 a and an integer v; false when a is NaN
F64Lt(a, v) == a.kind = "neg_inf" \/ (a.kind = "finite" /\ a.val < v)

(***************************************************************************)
(* Vectors and the QUBO.                                                   *)
(***************************************************************************)
Idx(n) == 0 .. (n - 1)

Zeros(n) == [i \in Idx(n) |-> 0]

BinaryVectors(n) == [Idx(n) -> {0, 1}]

RECURSIVE SumOver(_, _)
SumOver(S, term) ==
    IF S = {} THEN 0
    ELSE LET i == CHOOSE j \in S : TRUE
         IN  term[i] + SumOver(S \ {i}, term)

\* x^T Q x
Quad(p, x) ==
    SumOver(Idx(p.n) \X Idx(p.n),
            [ij \in Idx(p.n) \X Idx(p.n) |-> x[ij[1]] * p.q[ij] * x[ij[2]]])

\* c^T x
Lin(p, x) == SumOver(Idx(p.n), [i \in Idx(p.n) |-> p.c[i] * x[i]])

\* Qubo::eval: f(x) = x^T Q x + c^T x
Eval(p, x) == Quad(p, x) + Lin(p, x)

Abs(a) == IF a < 0 THEN -a ELSE a

Min(a, b) == IF a <= b THEN a ELSE b

SetMin(S) == CHOOSE a \in S : \A b \in S : a <= b

\* least integer >= a / d, for d > 0
CeilDiv(a, d) == -((-a) \div d)


(***************************************************************************)
(* The problems handed to BBSolver::new.  The solver requires Q symmetric  *)
(* and convex (positive semidefinite); the entry point establishes both.   *)
(***************************************************************************)
RECURSIVE Det(_, _, _)
\* determinant of m restricted to rows R and columns C (same size), by
\* expansion along the least row
Det(m, R, C) ==
    IF R = {} THEN 1
    ELSE LET r == SetMin(R)
             sign(cc) == IF Cardinality({d \in C : d < cc}) % 2 = 0 THEN 1 ELSE -1
         IN  SumOver(C, [cc \in C |-> sign(cc) * m[<<r, cc>>] * Det(m, R \ {r}, C \ {cc})])

IsSymmetric(n, m) == \A i, j \in Idx(n) : m[<<i, j>>] = m[<<j, i>>]

\* every principal minor is nonnegative
IsConvex(n, m) == \A S \in (SUBSET Idx(n)) \ {{}} : Det(m, S, S) >= 0

Coefficient(i, j) == IF i = j THEN 0 .. MaxDiag ELSE (-MaxOff) .. MaxOff

Matrices(n) ==
    {m \in [Idx(n) \X Idx(n) -> (-MaxOff) .. MaxDiag] :
        /\ \A i, j \in Idx(n) : m[<<i, j>>] \in Coefficient(i, j)
        /\ IsSymmetric(n, m)
        /\ IsConvex(n, m)}

Problems ==
    UNION {{[n |-> n, q |-> m, c |-> c] :
               m \in Matrices(n), c \in [Idx(n) -> (-MaxLin) .. MaxLin]} :
           n \in 1 .. MaxN}

Strategies == {"FirstNotFixed", "MostViolated", "Random", "WorstApproximation"}

\* larger than |f(x)| for every 0/1 vector x
ObjBound(p) ==
    1 + SumOver(Idx(p.n) \X Idx(p.n), [ij \in Idx(p.n) \X Idx(p.n) |-> Abs(p.q[ij])])
      + SumOver(Idx(p.n), [i \in Idx(p.n) |-> Abs(p.c[i])])

\* min of f over {0,1}^n, by enumeration
BruteForceMin(p) == SetMin({Eval(p, x) : x \in BinaryVectors(p.n)})

(***************************************************************************)
(* Fixings: HashMap<usize, f64> with values 0.0 and 1.0.                   *)
(***************************************************************************)
NoFixing == [i \in {} |-> 0]

Insert(fixed, i, v) == [j \in (DOMAIN fixed) \cup {i} |-> IF j = i THEN v ELSE fixed[j]]

Free(p, fixed) == Idx(p.n) \ DOMAIN fixed

\* the 0/1 vectors that agree with a fixing
Completions(p, fixed) ==
    {x \in BinaryVectors(p.n) : \A i \in DOMAIN fixed : x[i] = fixed[i]}

(***************************************************************************)
(* Iterative persistence (crate::persistence).  The derivative of f in     *)
(* x_i is c_i + 2 sum_j Q_ij x_j; its least and greatest value over the    *)
(* box left by the fixing decide whether x_i can be fixed.                 *)
(***************************************************************************)
GradLow(p, fixed, i) ==
    p.c[i] + 2 * SumOver(Idx(p.n),
        [j \in Idx(p.n) |-> IF j \in DOMAIN fixed THEN p.q[<<i, j>>] * fixed[j]
                            ELSE Min(p.q[<<i, j>>], 0)])

GradHigh(p, fixed, i) ==
    p.c[i] + 2 * SumOver(Idx(p.n),
        [j \in Idx(p.n) |-> IF j \in DOMAIN fixed THEN p.q[<<i, j>>] * fixed[j]
                            ELSE -Min(-p.q[<<i, j>>], 0)])

\* one pass: every free variable is tested against the fixing of the pass
compute_persistence(p, fixed) ==
    LET one == {i \in Free(p, fixed) :
                   GradHigh(p, fixed, i) <= 0 /\ GradLow(p, fixed, i) < 0}
        zero == {i \in Free(p, fixed) :
                   GradLow(p, fixed, i) >= 0 /\ GradHigh(p, fixed, i) > 0}
    IN  [i \in (DOMAIN fixed) \cup one \cup zero |->
            IF i \in DOMAIN fixed THEN fixed[i]
            ELSE IF i \in one THEN 1 ELSE 0]

RECURSIVE compute_iterative_persistence(_, _, _)
compute_iterative_persistence(p, fixed, iter_lim) ==
    IF iter_lim = 0 THEN fixed
    ELSE LET new_fixed == compute_persistence(p, fixed)
         IN  IF new_fixed = fixed THEN fixed
             ELSE compute_iterative_persistence(p, new_fixed, iter_lim - 1)

(***************************************************************************)
(* Nodes.                                                                  *)
(***************************************************************************)
QuboBBNode(lb, sol, fixed) ==
    [lower_bound |-> lb, solution |-> sol, fixed_variables |-> fixed]

\* the root node pushed by solve()
RootNode(p) ==
    QuboBBNode(NEG_INFINITY, Zeros(p.n),
               compute_iterative_persistence(p, NoFixing, p.n))

(***************************************************************************)
(* solve_node: the QP relaxation handed to Clarabel.                       *)
(*   minimise 1/2 x^T P x + q^T x,  P = clarabel_wrapper.q,  q = qubo.c,   *)
(*   x_i = v for every fixed (i, v),  0 <= x_i <= 1.                       *)
(* The minimum over the box is not computed here: it is at most the least  *)
(* value on the half-integer grid, and at most MaxSlack below it.  The     *)
(* primal point returned is a minimiser on that grid.                      *)
(***************************************************************************)
ClarabelWrapper(p) == [q |-> p.q, c |-> p.c]

\* the half-integer points of the feasible set, in halves
GridPoints(p, fixed) ==
    {x \in [Idx(p.n) -> {0, 1, 2}] : \A i \in DOMAIN fixed : x[i] = 2 * fixed[i]}

\* 8 * (1/2 x^T P x + q^T x) at the point x / 2
QpObjective8(p, x) ==
    LET w == ClarabelWrapper(p)
    IN  Quad([n |-> p.n, q |-> w.q, c |-> p.c], x) + 4 * Lin(p, x)

\* the least value of the objective on the grid, and where it is attained
GridMin(p, fixed) ==
    LET pts == GridPoints(p, fixed)
        obj == [x \in pts |-> QpObjective8(p, x)]
        least == SetMin({obj[x] : x \in pts})
    IN  [value8 |-> least, at |-> {x \in pts : obj[x] = least}]

\* the answers of a QP solve that succeeds: (solution.obj_val, solution.x)
QpSolved(p, nd) ==
    LET m == GridMin(p, nd.fixed_variables)
    IN  {[obj_val |-> F64(CeilDiv(m.value8, 8) - s), x |-> x, status |-> "Solved"] :
            s \in 0 .. MaxSlack, x \in m.at}

\* the answers of a QP solve that fails: the objective value is NaN or a
\* number that bounds nothing
QpFailed(p, nd) ==
    LET m == GridMin(p, nd.fixed_variables)
    IN  {[obj_val |-> v, x |-> x, status |-> "Failed"] :
            v \in {NAN, F64(ObjBound(p))}, x \in m.at}

\* solve_node returns whatever the solver left in solution.obj_val and solution.x
solve_node(p, nd, answer) == <<answer.obj_val, answer.x>>

(***************************************************************************)
(* Branching strategies.                                                   *)
(***************************************************************************)
Panic == -1

RECURSIVE ScanFree(_, _, _)
\* the first index of lo..hi-1 that is not fixed, Panic if there is none
ScanFree(fixed, lo, hi) ==
    IF lo >= hi THEN Panic
    ELSE IF lo \notin DOMAIN fixed THEN lo
    ELSE ScanFree(fixed, lo + 1, hi)

RECURSIVE ScanFreeDown(_, _)
\* the last index below hi that is not fixed, Panic if there is none
ScanFreeDown(fixed, hi) ==
    IF hi <= 0 THEN Panic
    ELSE IF (hi - 1) \notin DOMAIN fixed THEN hi - 1
    ELSE ScanFreeDown(fixed, hi - 1)

\* first_not_fixed that scans from the last index down
first_not_fixed_FromEnd(p, nd) == ScanFreeDown(nd.fixed_variables, p.n)

first_not_fixed(p, nd) == ScanFree(nd.fixed_variables, 0, p.n)

RECURSIVE MostViolatedScan(_, _, _, _, _)
\* the loop of most_violated from index i on; violations are in halves
MostViolatedScan(p, nd, i, most, index) ==
    IF i >= p.n THEN index
    ELSE IF i \notin DOMAIN nd.fixed_variables /\ Abs(nd.solution[i] - 1) <= most
         THEN MostViolatedScan(p, nd, i + 1, Abs(nd.solution[i] - 1), i)
         ELSE MostViolatedScan(p, nd, i + 1, most, index)

RECURSIVE MostViolatedScan_Strict(_, _, _, _, _)
\* the loop of most_violated with `<` in place of `<=`
MostViolatedScan_Strict(p, nd, i, most, index) ==
    IF i >= p.n THEN index
    ELSE IF i \notin DOMAIN nd.fixed_variables /\ Abs(nd.solution[i] - 1) < most
         THEN MostViolatedScan_Strict(p, nd, i + 1, Abs(nd.solution[i] - 1), i)
         ELSE MostViolatedScan_Strict(p, nd, i + 1, most, index)

\* most_violated that keeps the first of several equally violated indices
most_violated_FirstWins(p, nd) == MostViolatedScan_Strict(p, nd, 0, 2, 0)

RECURSIVE MostViolatedScan_Farthest(_, _, _, _, _)
\* the loop of most_violated with `>=` in place of `<=`
MostViolatedScan_Farthest(p, nd, i, most, index) ==
    IF i >= p.n THEN index
    ELSE IF i \notin DOMAIN nd.fixed_variables /\ Abs(nd.solution[i] - 1) >= most
         THEN MostViolatedScan_Farthest(p, nd, i + 1, Abs(nd.solution[i] - 1), i)
         ELSE MostViolatedScan_Farthest(p, nd, i + 1, most, index)

\* most_violated that looks for the value farthest from 0.5
most_violated_Farthest(p, nd) == MostViolatedScan_Farthest(p, nd, 0, 0, 0)

\* most_violated whose running minimum starts at 0.0 instead of 1.0
most_violated_ZeroStart(p, nd) == MostViolatedScan(p, nd, 0, 0, 0)

most_violated(p, nd) == MostViolatedScan(p, nd, 0, 2, 0)

\* first output of the JsfLarge stream seeded with s, as a fixed scrambling of s
GenU64(s) == (5 * s * s + 3 * s + 1) % 7

\* a seed to which every solver built earlier in the process has added
RandomSeed_PerSolver(opts, visited) == opts.seed + visited + 4 * (run - 1)

RandomSeed(opts, visited) == opts.seed + visited

random(p, opts, visited, nd) ==
    LET index == GenU64(RandomSeed(opts, visited)) % p.n
        upper == ScanFree(nd.fixed_variables, index, p.n)
    IN  IF upper # Panic THEN upper
        ELSE ScanFree(nd.fixed_variables, 0, index)

\* local_search_utils::one_flip_objective: the change of f when x_i is flipped
one_flip_objective(p, x) ==
    [i \in Idx(p.n) |-> Eval(p, [x EXCEPT ![i] = 1 - x[i]]) - Eval(p, x)]

RECURSIVE WorstApproximationScan(_, _, _, _, _, _)
\* the loop of worst_approximation from index i on
WorstApproximationScan(p, nd, gain, i, worst, index) ==
    IF i >= p.n THEN index
    ELSE IF i \notin DOMAIN nd.fixed_variables /\ F64Lt(worst, gain[i])
         THEN WorstApproximationScan(p, nd, gain, i + 1, F64(gain[i]), i)
         ELSE WorstApproximationScan(p, nd, gain, i + 1, worst, index)

worst_approximation(p, nd) ==
    LET fixed == nd.fixed_variables
        zero_buffer == [i \in Idx(p.n) |-> IF i \in DOMAIN fixed THEN fixed[i] ELSE 0]
        one_buffer == [i \in Idx(p.n) |-> IF i \in DOMAIN fixed THEN fixed[i] ELSE 1]
        flips_zero == one_flip_objective(p, zero_buffer)
        flips_one == one_flip_objective(p, one_buffer)
        gain == [i \in Idx(p.n) |-> Min(flips_zero[i], flips_one[i])]
    IN  WorstApproximationScan(p, nd, gain, 0, NEG_INFINITY, 0)

make_branch(p, opts, visited, nd) ==
    CASE opts.branch_strategy = "FirstNotFixed" -> first_not_fixed(p, nd)
      [] opts.branch_strategy = "MostViolated" -> most_violated(p, nd)
      [] opts.branch_strategy = "Random" -> random(p, opts, visited, nd)
      [] opts.branch_strategy = "WorstApproximation" -> worst_approximation(p, nd)

\* worst_approximation counts four objective evaluations
make_branch_evales(opts) ==
    IF opts.branch_strategy = "WorstApproximation" THEN 4 ELSE 0

(***************************************************************************)
(* branch: the two children of a node, <<zero_branch, one_branch>>.        *)
(***************************************************************************)
\* branch that forgets to fix the branching variable
branch_NoInsert(p, nd, id, lower_bound, solution) ==
    <<QuboBBNode(lower_bound, solution, nd.fixed_variables),
      QuboBBNode(lower_bound, solution, nd.fixed_variables)>>

\* branch whose children start from the branching variable alone
branch_ParentDropped(p, nd, id, lower_bound, solution) ==
    <<QuboBBNode(lower_bound, solution,
                 compute_iterative_persistence(p, Insert(NoFixing, id, 0), p.n)),
      QuboBBNode(lower_bound, solution,
                 compute_iterative_persistence(p, Insert(NoFixing, id, 1), p.n))>>

branch(p, nd, id, lower_bound, solution) ==
    LET zero_fixed == compute_iterative_persistence(
                          p, Insert(nd.fixed_variables, id, 0), p.n)
        one_fixed == compute_iterative_persistence(
                          p, Insert(nd.fixed_variables, id, 1), p.n)
    IN  <<QuboBBNode(lower_bound, solution, zero_fixed),
          QuboBBNode(lower_bound, solution, one_fixed)>>

(***************************************************************************)
(* can_prune: whether the node is discarded, the incumbent and the         *)
(* evaluation counter it leaves, and whether it called qubo.eval.          *)
(***************************************************************************)
LeafVector(p, nd) ==
    [i \in Idx(p.n) |-> IF i \in DOMAIN nd.fixed_variables
                        THEN nd.fixed_variables[i] ELSE 0]

\* can_prune that discards a leaf without looking at its value
can_prune_LeafIgnored(p, nd, best, best_value, evales) ==
    [prune |-> F64Gt(nd.lower_bound, best_value)
                 \/ Cardinality(DOMAIN nd.fixed_variables) = p.n,
     best_solution |-> best, best_solution_value |-> best_value,
     nodes_objective_evales |-> evales, evaluated |-> FALSE]

\* can_prune that takes over every leaf it evaluates
can_prune_LeafAlwaysTaken(p, nd, best, best_value, evales) ==
    IF F64Gt(nd.lower_bound, best_value)
    THEN [prune |-> TRUE, best_solution |-> best, best_solution_value |-> best_value,
          nodes_objective_evales |-> evales, evaluated |-> FALSE]
    ELSE IF Cardinality(DOMAIN nd.fixed_variables) = p.n
    THEN [prune |-> TRUE, best_solution |-> LeafVector(p, nd),
          best_solution_value |-> Eval(p, LeafVector(p, nd)),
          nodes_objective_evales |-> evales + 1, evaluated |-> TRUE]
    ELSE [prune |-> FALSE, best_solution |-> best, best_solution_value |-> best_value,
          nodes_objective_evales |-> evales, evaluated |-> FALSE]

\* can_prune that also fathoms a node whose bound equals the incumbent value
can_prune_FathomOnEqual(p, nd, best, best_value, evales) ==
    IF F64Gt(nd.lower_bound, best_value - 1)
    THEN [prune |-> TRUE, best_solution |-> best, best_solution_value |-> best_value,
          nodes_objective_evales |-> evales, evaluated |-> FALSE]
    ELSE IF Cardinality(DOMAIN nd.fixed_variables) = p.n
    THEN LET solution == LeafVector(p, nd)
             solution_value == Eval(p, solution)
         IN  IF solution_value < best_value
             THEN [prune |-> TRUE, best_solution |-> solution,
                   best_solution_value |-> solution_value,
                   nodes_objective_evales |-> evales + 1, evaluated |-> TRUE]
             ELSE [prune |-> TRUE, best_solution |-> best,
                   best_solution_value |-> best_value,
                   nodes_objective_evales |-> evales, evaluated |-> TRUE]
    ELSE [prune |-> FALSE, best_solution |-> best, best_solution_value |-> best_value,
          nodes_objective_evales |-> evales, evaluated |-> FALSE]

\* can_prune that evaluates a leaf and then hands it on instead of discarding it
can_prune_LeafKept(p, nd, best, best_value, evales) ==
    IF F64Gt(nd.lower_bound, best_value)
    THEN [prune |-> TRUE, best_solution |-> best, best_solution_value |-> best_value,
          nodes_objective_evales |-> evales, evaluated |-> FALSE]
    ELSE IF Cardinality(DOMAIN nd.fixed_variables) = p.n
    THEN LET solution == LeafVector(p, nd)
             solution_value == Eval(p, solution)
         IN  IF solution_value < best_value
             THEN [prune |-> FALSE, best_solution |-> solution,
                   best_solution_value |-> solution_value,
                   nodes_objective_evales |-> evales + 1, evaluated |-> TRUE]
             ELSE [prune |-> FALSE, best_solution |-> best,
                   best_solution_value |-> best_value,
                   nodes_objective_evales |-> evales, evaluated |-> TRUE]
    ELSE [prune |-> FALSE, best_solution |-> best, best_solution_value |-> best_value,
          nodes_objective_evales |-> evales, evaluated |-> FALSE]

\* can_prune that records the value of a better leaf but keeps the old vector
can_prune_ValueOnly(p, nd, best, best_value, evales) ==
    IF F64Gt(nd.lower_bound, best_value)
    THEN [prune |-> TRUE, best_solution |-> best, best_solution_value |-> best_value,
          nodes_objective_evales |-> evales, evaluated |-> FALSE]
    ELSE IF Cardinality(DOMAIN nd.fixed_variables) = p.n
    THEN LET solution == LeafVector(p, nd)
             solution_value == Eval(p, solution)
         IN  IF solution_value < best_value
             THEN [prune |-> TRUE, best_solution |-> best,
                   best_solution_value |-> solution_value,
                   nodes_objective_evales |-> evales + 1, evaluated |-> TRUE]
             ELSE [prune |-> TRUE, best_solution |-> best,
                   best_solution_value |-> best_value,
                   nodes_objective_evales |-> evales, evaluated |-> TRUE]
    ELSE [prune |-> FALSE, best_solution |-> best, best_solution_value |-> best_value,
          nodes_objective_evales |-> evales, evaluated |-> FALSE]

can_prune(p, nd, best, best_value, evales) ==
    IF F64Gt(nd.lower_bound, best_value)
    THEN [prune |-> TRUE, best_solution |-> best, best_solution_value |-> best_value,
          nodes_objective_evales |-> evales, evaluated |-> FALSE]
    ELSE IF Cardinality(DOMAIN nd.fixed_variables) = p.n
    THEN LET solution == LeafVector(p, nd)
             solution_value == Eval(p, solution)
         IN  IF solution_value < best_value
             THEN [prune |-> TRUE, best_solution |-> solution,
                   best_solution_value |-> solution_value,
                   nodes_objective_evales |-> evales + 1, evaluated |-> TRUE]
             ELSE [prune |-> TRUE, best_solution |-> best,
                   best_solution_value |-> best_value,
                   nodes_objective_evales |-> evales, evaluated |-> TRUE]
    ELSE [prune |-> FALSE, best_solution |-> best, best_solution_value |-> best_value,
          nodes_objective_evales |-> evales, evaluated |-> FALSE]

(***************************************************************************)
(* The solver as a state machine.                                          *)
(***************************************************************************)
NoWarm(n) == [some |-> FALSE, x |-> Zeros(n)]

NoNode(n) == QuboBBNode(NEG_INFINITY, Zeros(n), NoFixing)

NoConvexify == [entry |-> "none", min_eig |-> 0, applied |-> FALSE, shift |-> 0]

NoReplay == [on |-> FALSE, answers |-> NoFixing, trace |-> <<>>]

NoRef(n) ==
    [value |-> 0, state |-> <<>>, failures |-> 0, timed_out |-> FALSE,
     iters |-> 0, warm |-> NoWarm(n), replay |-> NoReplay]

\* a pop that takes the oldest element, as a queue would
StackPop_Front(stack) == [top |-> stack[1], rest |-> Tail(stack)]

\* Vec::pop: the last element and what is left
StackPop(stack) ==
    [top |-> stack[Len(stack)], rest |-> SubSeq(stack, 1, Len(stack) - 1)]

\* solve() pushes the zero branch, then the one branch
\* a push that keeps only the second child
PushChildren_OnlyOne(stack, zero, one) == Append(stack, one)

\* a push that puts the children below the nodes already waiting
PushChildren_Front(stack, zero, one) == <<zero, one>> \o stack

PushChildren(stack, zero, one) == Append(Append(stack, zero), one)

\* warm_start that stores the vector and keeps the old value
warm_start_ValueKept(p, x0) == [best_solution |-> x0, best_solution_value |-> 0]

\* warm_start: the incumbent it leaves
warm_start(p, x0) == [best_solution |-> x0, best_solution_value |-> Eval(p, x0)]

\* BBSolver::new
BBSolverNew ==
    /\ qubo \in Problems
    /\ options \in [branch_strategy : Strategies, seed : 0 .. MaxSeed]
    /\ best_solution = Zeros(qubo.n)
    /\ best_solution_value = 0
    /\ nodes = <<>>
    /\ nodes_processed = 0
    /\ nodes_visited = 0
    /\ nodes_objective_evales = 0
    /\ pc = "new"
    /\ node = NoNode(qubo.n)
    /\ branch_id = 0
    /\ warm = NoWarm(qubo.n)
    /\ timed_out = FALSE
    /\ iters = 0
    /\ qp_failures = 0
    /\ node_path = <<>>
    /\ cur_path = <<>>
    /\ popped = {}
    /\ solved = {}
    /\ branched = {}
    /\ failed = {}
    /\ leaf_evals = NoFixing
    /\ run = 1
    /\ ref = NoRef(qubo.n)

Init == BBSolverNew /\ replay = NoReplay /\ convexify = NoConvexify

\* the caller hands over an initial 0/1 vector before solve()
WarmStart ==
    /\ pc = "new"
    /\ ~warm.some
    /\ \E x0 \in BinaryVectors(qubo.n) :
          /\ best_solution' = warm_start(qubo, x0).best_solution
          /\ best_solution_value' = warm_start(qubo, x0).best_solution_value
          /\ warm' = [some |-> TRUE, x |-> x0]
    /\ UNCHANGED <<qubo, options, nodes, nodes_processed, nodes_visited,
                   nodes_objective_evales, pc, node, branch_id, timed_out, iters,
                   qp_failures, node_path, cur_path, popped, solved, branched,
                   failed, leaf_evals, replay, run, ref, convexify>>

\* solve(): the root node is pushed and the clock is started
SolveStart ==
    /\ pc = "new"
    /\ nodes' = Append(nodes, RootNode(qubo))
    /\ node_path' = Append(node_path, <<>>)
    /\ pc' = "loop"
    /\ UNCHANGED <<qubo, options, best_solution, best_solution_value,
                   nodes_processed, nodes_visited, nodes_objective_evales, node,
                   branch_id, warm, timed_out, iters, qp_failures, cur_path,
                   popped, solved, branched, failed, leaf_evals, replay, run, ref, convexify>>

\* a timeout that also throws away the nodes still on the stack
Timeout_DropsNodes ==
    /\ pc = "loop"
    /\ pc' = "done"
    /\ timed_out' = TRUE
    /\ nodes' = <<>>
    /\ node_path' = <<>>
    /\ UNCHANGED <<qubo, options, best_solution, best_solution_value,
                   nodes_processed, nodes_visited, nodes_objective_evales, node,
                   branch_id, warm, iters, qp_failures, cur_path, popped, solved,
                   branched, failed, leaf_evals, replay, run, ref, convexify>>

\* termination_condition: the time budget is used up
Timeout ==
    /\ pc = "loop"
    /\ pc' = "done"
    /\ timed_out' = TRUE
    /\ UNCHANGED <<qubo, options, solver_state, node, branch_id, warm, iters,
                   qp_failures, node_path, cur_path, popped, solved, branched,
                   failed, leaf_evals, replay, run, ref, convexify>>

\* termination_condition within the budget: the loop ends when no node is
\* left, and its body is entered otherwise
LoopTest ==
    /\ pc = "loop"
    /\ IF Len(nodes) = 0
       THEN pc' = "done" /\ UNCHANGED iters
       ELSE pc' = "get_next" /\ iters' = iters + 1
    /\ UNCHANGED <<qubo, options, solver_state, node, branch_id, warm, timed_out,
                   qp_failures, node_path, cur_path, popped, solved, branched,
                   failed, leaf_evals, replay, run, ref, convexify>>

\* a pass of get_next_node that counts the visit after the pruning test, for
\* the nodes it hands on only
Pop_VisitCountedIfKept ==
    /\ pc = "get_next"
    /\ Len(nodes) > 0
    /\ LET nd == StackPop(nodes).top
           path == StackPop(node_path).top
           r == can_prune(qubo, nd, best_solution, best_solution_value,
                          nodes_objective_evales)
       IN  /\ nodes' = StackPop(nodes).rest
           /\ node_path' = StackPop(node_path).rest
           /\ nodes_visited' = IF r.prune THEN nodes_visited ELSE nodes_visited + 1
           /\ popped' = popped \cup {path}
           /\ best_solution' = r.best_solution
           /\ best_solution_value' = r.best_solution_value
           /\ nodes_objective_evales' = r.nodes_objective_evales
           /\ leaf_evals' = IF r.evaluated
                            THEN Insert(leaf_evals, path,
                                        IF path \in DOMAIN leaf_evals
                                        THEN leaf_evals[path] + 1 ELSE 1)
                            ELSE leaf_evals
           /\ replay' = IF replay.on
                        THEN [replay EXCEPT !.trace =
                                 Append(@, [event |-> "pop", node |-> nd, branch_id |-> 0])]
                        ELSE replay
           /\ IF r.prune
              THEN pc' = "get_next" /\ UNCHANGED <<node, cur_path>>
              ELSE pc' = "process" /\ node' = nd /\ cur_path' = path
    /\ UNCHANGED <<qubo, options, nodes_processed, branch_id, warm, timed_out,
                   iters, qp_failures, solved, branched, failed, run, ref, convexify>>

\* get_next_node: one pass of its loop
Pop ==
    /\ pc = "get_next"
    /\ Len(nodes) > 0
    /\ LET nd == StackPop(nodes).top
           path == StackPop(node_path).top
           r == can_prune(qubo, nd, best_solution, best_solution_value,
                          nodes_objective_evales)
       IN  /\ nodes' = StackPop(nodes).rest
           /\ node_path' = StackPop(node_path).rest
           /\ nodes_visited' = nodes_visited + 1
           /\ popped' = popped \cup {path}
           /\ best_solution' = r.best_solution
           /\ best_solution_value' = r.best_solution_value
           /\ nodes_objective_evales' = r.nodes_objective_evales
           /\ leaf_evals' = IF r.evaluated
                            THEN Insert(leaf_evals, path,
                                        IF path \in DOMAIN leaf_evals
                                        THEN leaf_evals[path] + 1 ELSE 1)
                            ELSE leaf_evals
           /\ replay' = IF replay.on
                        THEN [replay EXCEPT !.trace =
                                 Append(@, [event |-> "pop", node |-> nd, branch_id |-> 0])]
                        ELSE replay
           /\ IF r.prune
              THEN pc' = "get_next" /\ UNCHANGED <<node, cur_path>>
              ELSE pc' = "process" /\ node' = nd /\ cur_path' = path
    /\ UNCHANGED <<qubo, options, nodes_processed, branch_id, warm, timed_out,
                   iters, qp_failures, solved, branched, failed, run, ref, convexify>>

\* get_next_node returns None: solve() breaks out of its loop
GetNextNone ==
    /\ pc = "get_next"
    /\ Len(nodes) = 0
    /\ pc' = "done"
    /\ UNCHANGED <<qubo, options, solver_state, node, branch_id, history, run, ref, convexify>>

\* the rest of the loop body for one answer of the QP solver
Process(answer) ==
    LET sn == solve_node(qubo, node, answer)
        id == make_branch(qubo, options, nodes_visited, node)
        children == branch(qubo, node, id, sn[1], sn[2])
    IN  /\ nodes_processed' = nodes_processed + 1
        /\ solved' = solved \cup {cur_path}
        /\ nodes_objective_evales' = nodes_objective_evales + make_branch_evales(options)
        /\ branch_id' = id
        /\ replay' = IF replay.on
                     THEN [replay EXCEPT
                              !.answers = Insert(@, node.fixed_variables, answer),
                              !.trace = Append(@, [event |-> "branch", node |-> node,
                                                   branch_id |-> id])]
                     ELSE replay
        /\ IF id = Panic
           THEN /\ pc' = "panic"
                /\ UNCHANGED <<nodes, node_path, branched>>
           ELSE /\ pc' = "loop"
                /\ branched' = branched \cup {cur_path}
                /\ nodes' = PushChildren(nodes, children[1], children[2])
                /\ node_path' = PushChildren(node_path, Append(cur_path, 0),
                                             Append(cur_path, 1))
        /\ UNCHANGED <<qubo, options, best_solution, best_solution_value,
                       nodes_visited, node, warm, timed_out, iters, cur_path,
                       popped, leaf_evals, run, ref, convexify>>

\* the QP solve of the node succeeds
SolveOk ==
    /\ pc = "process"
    /\ \E answer \in QpSolved(qubo, node) : Process(answer)
    /\ UNCHANGED <<qp_failures, failed>>

\* the QP solve of the node fails
SolveFail ==
    /\ pc = "process"
    /\ qp_failures < MaxQpFailures
    /\ \E answer \in QpFailed(qubo, node) : Process(answer)
    /\ qp_failures' = qp_failures + 1
    /\ failed' = failed \cup {cur_path}

Next ==
    \/ WarmStart
    \/ SolveStart
    \/ Timeout
    \/ LoopTest
    \/ Pop
    \/ GetNextNone
    \/ SolveOk
    \/ SolveFail

Spec == Init /\ [][Next]_vars

\* solve() is sequential code: from any position but its return it takes its
\* next step.  Nothing forces the clock to run out, nor the caller to warm
\* start.  A step of solve() other than the timeout is told by what it does to
\* pc and nodes_visited: each of SolveStart, LoopTest, Pop, GetNextNone,
\* SolveOk and SolveFail changes one of the two and leaves timed_out and warm
\* alone, and no other action does.
SolveStep ==
    /\ pc \in {"new", "loop", "get_next", "process"}
    /\ pc' \in {"loop", "get_next", "process", "done"}
    /\ nodes_visited' \in {nodes_visited, nodes_visited + 1}
    /\ timed_out' = timed_out
    /\ warm' = warm

SpecLive == Init /\ [][Next]_vars /\ WF_<<pc, nodes_visited>>(SolveStep)

(***************************************************************************)
(* Two solvers on the same problem with the same options, one after the    *)
(* other: when the first, which was not warm started and whose QP solves   *)
(* all succeeded, has returned, what it returned and held is kept in ref   *)
(* and a second solver is built by BBSolver::new.  The options are the     *)
(* defaults of the entry point (FirstNotFixed) with seed 0.                *)
(***************************************************************************)
InitTwoRuns ==
    /\ Init
    /\ options = [branch_strategy |-> "FirstNotFixed", seed |-> 0]

SecondSolver ==
    /\ pc = "done"
    /\ run = 1
    /\ ~warm.some
    /\ qp_failures = 0
    /\ ref' = [value |-> best_solution_value, state |-> solver_state,
               failures |-> qp_failures, timed_out |-> timed_out,
               iters |-> iters, warm |-> warm, replay |-> replay]
    /\ run' = 2
    /\ best_solution' = Zeros(qubo.n)
    /\ best_solution_value' = 0
    /\ nodes' = <<>>
    /\ nodes_processed' = 0
    /\ nodes_visited' = 0
    /\ nodes_objective_evales' = 0
    /\ pc' = "new"
    /\ node' = NoNode(qubo.n)
    /\ branch_id' = 0
    /\ warm' = NoWarm(qubo.n)
    /\ timed_out' = FALSE
    /\ iters' = 0
    /\ qp_failures' = 0
    /\ node_path' = <<>>
    /\ cur_path' = <<>>
    /\ popped' = {}
    /\ solved' = {}
    /\ branched' = {}
    /\ failed' = {}
    /\ leaf_evals' = NoFixing
    /\ UNCHANGED <<qubo, options, replay, convexify>>

NextTwoRuns ==
    \/ Next
    \/ SecondSolver

SpecTwoRuns == InitTwoRuns /\ [][NextTwoRuns]_vars

(***************************************************************************)
(* Two solvers on the same problem with the same options and the same warm *)
(* start, the second being given the QP answers of the first: the first    *)
(* run keeps, for every node it solved, the answer of the QP solver under  *)
(* the node's fixing (which determines the QP), and the sequence of its    *)
(* pops and branchings.  All strategies and seeds take part.               *)
(***************************************************************************)
InitReplay ==
    /\ BBSolverNew
    /\ replay = [NoReplay EXCEPT !.on = TRUE]
    /\ convexify = NoConvexify

FirstWarmStart == run = 1 /\ WarmStart

FirstSolveOk == run = 1 /\ SolveOk

FirstSolveFail == run = 1 /\ SolveFail

\* BBSolver::new for the second run, and warm_start if the first had one
SecondSolverReplay ==
    /\ pc = "done"
    /\ run = 1
    /\ ~timed_out
    /\ ref' = [value |-> best_solution_value, state |-> solver_state,
               failures |-> qp_failures, timed_out |-> timed_out,
               iters |-> iters, warm |-> warm, replay |-> replay]
    /\ run' = 2
    /\ best_solution' = IF warm.some THEN warm_start(qubo, warm.x).best_solution
                        ELSE Zeros(qubo.n)
    /\ best_solution_value' = IF warm.some
                              THEN warm_start(qubo, warm.x).best_solution_value
                              ELSE 0
    /\ nodes' = <<>>
    /\ nodes_processed' = 0
    /\ nodes_visited' = 0
    /\ nodes_objective_evales' = 0
    /\ pc' = "new"
    /\ node' = NoNode(qubo.n)
    /\ branch_id' = 0
    /\ timed_out' = FALSE
    /\ iters' = 0
    /\ qp_failures' = 0
    /\ node_path' = <<>>
    /\ cur_path' = <<>>
    /\ popped' = {}
    /\ solved' = {}
    /\ branched' = {}
    /\ failed' = {}
    /\ leaf_evals' = NoFixing
    /\ replay' = [NoReplay EXCEPT !.on = TRUE]
    /\ UNCHANGED <<qubo, options, warm, convexify>>

\* the QP solve of the second run: the solver answers as it did in the
\* first run on the same fixing
SolveReplay ==
    /\ pc = "process"
    /\ run = 2
    /\ node.fixed_variables \in DOMAIN ref.replay.answers
    /\ LET answer == ref.replay.answers[node.fixed_variables]
       IN  /\ Process(answer)
           /\ qp_failures' = IF answer.status = "Failed"
                             THEN qp_failures + 1 ELSE qp_failures
           /\ failed' = IF answer.status = "Failed"
                        THEN failed \cup {cur_path} ELSE failed

NextReplay ==
    \/ FirstWarmStart
    \/ SolveStart
    \/ Timeout
    \/ LoopTest
    \/ Pop
    \/ GetNextNone
    \/ FirstSolveOk
    \/ FirstSolveFail
    \/ SecondSolverReplay
    \/ SolveReplay

SpecReplay == InitReplay /\ [][NextReplay]_vars

(***************************************************************************)
(* Convexification in the entry points (src/src/python_interopt.rs).  The  *)
(* least eigenvalue of the Hessian of the caller's problem is an input, in *)
(* tenths; a shift is kept in hundredths, so that |min_eig| + 1.0 is       *)
(* 10 * |m| + 100 and |min_eig| * 1.1 is 11 * |m| for min_eig = m / 10.    *)
(***************************************************************************)
\* solve_branch_bound: match min_eig > 0.0 { true => symm_p, false => shifted }
solve_branch_bound_shift(m) ==
    IF m > 0 THEN [applied |-> FALSE, shift |-> 0]
    ELSE [applied |-> TRUE, shift |-> 10 * Abs(m) + 100]

\* convex_symmetric_form: returns early if min_eig > 0.0, shifts otherwise
convex_symmetric_form_shift(m) ==
    IF m > 0 THEN [applied |-> FALSE, shift |-> 0]
    ELSE [applied |-> TRUE, shift |-> 11 * Abs(m)]

InitConvexify ==
    /\ BBSolverNew
    /\ replay = NoReplay
    /\ \E m \in (-MaxEig) .. MaxEig : convexify = [NoConvexify EXCEPT !.min_eig = m]

\* solve_branch_bound up to the construction of the solver
SolveBranchBoundConvexify ==
    /\ convexify.entry = "none"
    /\ LET r == solve_branch_bound_shift(convexify.min_eig)
       IN  convexify' = [convexify EXCEPT !.entry = "solve_branch_bound",
                                          !.applied = r.applied, !.shift = r.shift]
    /\ UNCHANGED <<qubo, options, solver_state, pc, node, branch_id, history, run, ref>>

\* convex_symmetric_form
ConvexSymmetricForm ==
    /\ convexify.entry = "none"
    /\ LET r == convex_symmetric_form_shift(convexify.min_eig)
       IN  convexify' = [convexify EXCEPT !.entry = "convex_symmetric_form",
                                          !.applied = r.applied, !.shift = r.shift]
    /\ UNCHANGED <<qubo, options, solver_state, pc, node, branch_id, history, run, ref>>

NextConvexify ==
    \/ SolveBranchBoundConvexify
    \/ ConvexSymmetricForm

SpecConvexify == InitConvexify /\ [][NextConvexify]_vars

(***************************************************************************)
(* make_branch on its own: any node with a free variable, carrying any     *)
(* relaxed solution of the half-integer grid, at any visit count.          *)
(***************************************************************************)
PartialFixings(n) ==
    UNION {[D -> {0, 1}] : D \in (SUBSET Idx(n)) \ {Idx(n)}}

InitBranch ==
    /\ qubo \in Problems
    /\ options \in [branch_strategy : Strategies, seed : 0 .. MaxSeed]
    /\ best_solution = Zeros(qubo.n)
    /\ best_solution_value = 0
    /\ nodes = <<>>
    /\ nodes_processed = 0
    /\ nodes_visited \in 0 .. MaxVisited
    /\ nodes_objective_evales = 0
    /\ pc = "process"
    /\ \E fixed \in PartialFixings(qubo.n), sol \in [Idx(qubo.n) -> {0, 1, 2}] :
          node = QuboBBNode(NEG_INFINITY, sol, fixed)
    /\ branch_id = 0
    /\ warm = NoWarm(qubo.n)
    /\ timed_out = FALSE
    /\ iters = 0
    /\ qp_failures = 0
    /\ node_path = <<>>
    /\ cur_path = <<>>
    /\ popped = {}
    /\ solved = {}
    /\ branched = {}
    /\ failed = {}
    /\ leaf_evals = NoFixing
    /\ replay = NoReplay
    /\ run = 1
    /\ ref = NoRef(qubo.n)
    /\ convexify = NoConvexify

\* solve(): let branch_id = self.make_branch(&node)
MakeBranch ==
    /\ pc = "process"
    /\ branch_id' = make_branch(qubo, options, nodes_visited, node)
    /\ nodes_objective_evales' = nodes_objective_evales + make_branch_evales(options)
    /\ pc' = "branched"
    /\ UNCHANGED <<qubo, options, best_solution, best_solution_value, nodes,
                   nodes_processed, nodes_visited, node, history, run, ref, convexify>>

NextBranch == MakeBranch

SpecBranch == InitBranch /\ [][NextBranch]_vars

(***************************************************************************)
(* Properties.                                                             *)
(***************************************************************************)

\* C1: when solve() has returned on an empty stack and no QP solve failed,
\* the incumbent value is the minimum of f over {0,1}^n and the incumbent
\* attains it, whatever the strategy and the warm start.
C1_ExhaustiveCorrectness ==
    (pc = "done" /\ Len(nodes) = 0 /\ qp_failures = 0)
        => /\ best_solution_value = BruteForceMin(qubo)
           /\ Eval(qubo, best_solution) = best_solution_value

\* a run that ended on an empty stack, after a warm start worse than the
\* optimum, having solved QPs and found a vector better than all-zero
C1_Witness ==
    /\ pc = "done" /\ Len(nodes) = 0 /\ qp_failures = 0
    /\ warm.some /\ Eval(qubo, warm.x) > best_solution_value
    /\ nodes_processed >= 2
    /\ best_solution_value < 0

\* C2: once solve() runs, no step increases the incumbent value; the value
\* changes only in a step of get_next_node (where can_prune is called), and
\* then to a strictly smaller value.
C2_MonotoneIncumbent ==
    [][pc # "new" =>
          /\ best_solution_value' <= best_solution_value
          /\ best_solution_value' # best_solution_value
                => /\ pc = "get_next"
                   /\ nodes_visited' = nodes_visited + 1
                   /\ best_solution_value' < best_solution_value]_vars

\* the incumbent was improved twice: below the warm start, then again
C2_Witness ==
    /\ warm.some
    /\ nodes_objective_evales = 2
    /\ options.branch_strategy = "FirstNotFixed"
    /\ best_solution_value < Eval(qubo, warm.x) - 1

\* C3: on a node with a free variable, every strategy returns an index
\* below n that is not a key of the node's fixed_variables, whatever relaxed
\* solution the node carries.
C3_BranchIndexFree ==
    pc = "branched"
        => /\ branch_id \in Idx(qubo.n)
           /\ branch_id \notin DOMAIN node.fixed_variables

\* MostViolated on a node whose index 0 is fixed and whose free variable is
\* at a bound of the box: the index returned is not the default 0
C3_Witness ==
    /\ pc = "branched"
    /\ options.branch_strategy = "MostViolated"
    /\ 0 \in DOMAIN node.fixed_variables
    /\ node.solution[1] = 2
    /\ branch_id = 1

\* C4: every node on the stack carries a lower bound that is at most f(x)
\* for every 0/1 vector x that agrees with the node's fixing.
C4_BoundValid ==
    \A k \in 1 .. Len(nodes) :
        \A x \in Completions(qubo, nodes[k].fixed_variables) :
            F64Le(nodes[k].lower_bound, Eval(qubo, x))

\* C5: solve() always returns and never panics; when the time budget did not
\* stop it, it returns on an empty stack; and the two children pushed for a
\* processed node each fix strictly more variables than the node.
C5_Termination ==
    /\ <>(pc = "done")
    /\ [](pc # "panic" /\ (pc = "done" /\ ~timed_out => Len(nodes) = 0))
    /\ [][nodes_processed' = nodes_processed + 1 =>
            /\ Len(nodes') = Len(nodes) + 2
            /\ \A k \in {Len(nodes') - 1, Len(nodes')} :
                  Cardinality(DOMAIN nodes'[k].fixed_variables)
                      > Cardinality(DOMAIN node.fixed_variables)]_vars

\* a run that was never stopped by the clock, processed a whole tree of
\* three nodes and returned on an empty stack
C5_Witness ==
    /\ pc = "done" /\ ~timed_out /\ Len(nodes) = 0
    /\ nodes_processed >= 3

IsPrefix(a, b) == Len(a) <= Len(b) /\ SubSeq(b, 1, Len(a)) = a

\* C6: a node whose QP solve failed is not branched on, and no node created
\* from it is QP-solved or branched on.
C6_FailedNodePruned ==
    \A a \in failed :
        /\ a \notin branched
        /\ \A b \in solved \cup branched : b # a => ~IsPrefix(a, b)

\* C7: the state the solver is left in tells whether a QP solve failed: two
\* solvers that end in the same state had a failure both or neither.
C7_FailureRecorded ==
    (run = 2 /\ pc = "done" /\ solver_state = ref.state)
        => ((qp_failures > 0) <=> (ref.failures > 0))

\* C8: warm_start(x0) sets the incumbent to x0 and its value to f(x0) and
\* changes nothing else of the solver; until the first node is popped the
\* incumbent stays x0 with value f(x0).
C8_WarmStartFrame ==
    /\ [][warm' # warm =>
            /\ warm'.some
            /\ best_solution' = warm'.x
            /\ best_solution_value' = Eval(qubo, warm'.x)
            /\ UNCHANGED <<qubo, options, nodes, nodes_processed, nodes_visited,
                           nodes_objective_evales>>]_vars
    /\ [](warm.some /\ nodes_visited = 0 =>
            /\ best_solution = warm.x
            /\ best_solution_value = Eval(qubo, warm.x))

\* solve() is about to pop its first node after a warm start whose value
\* differs from the value 0 the solver was built with
C8_Witness ==
    /\ warm.some
    /\ pc = "get_next" /\ nodes_visited = 0
    /\ best_solution = warm.x
    /\ best_solution_value = Eval(qubo, warm.x)
    /\ best_solution_value # 0

\* C9: a solver that was warm started returns a value that is at most the
\* value returned without a warm start on the same problem and options, the
\* two runs ending the same way (both on the time budget after the same
\* number of loop iterations, or both without it).
C9_WarmStartAdmissible ==
    (/\ run = 2 /\ pc = "done" /\ warm.some
     /\ timed_out = ref.timed_out
     /\ timed_out => iters = ref.iters)
        => best_solution_value <= ref.value

\* C10: the node popped right after a branching is the x_i = 1 child, and
\* once an x_i = 0 child has been popped its sibling has been popped and no
\* node below the sibling is on the stack or being processed.
C10_DepthFirst ==
    /\ [][(/\ popped' # popped
           /\ cur_path \in branched
           /\ Append(cur_path, 1) \notin popped)
             => popped' = popped \cup {Append(cur_path, 1)}]_vars
    /\ [](\A a \in popped :
            (Len(a) > 0 /\ a[Len(a)] = 0) =>
                LET sibling == [a EXCEPT ![Len(a)] = 1]
                IN  /\ sibling \in popped
                    /\ \A k \in 1 .. Len(node_path) : ~IsPrefix(sibling, node_path[k])
                    /\ pc = "process" => ~IsPrefix(sibling, cur_path))

\* the x_0 = 0 child of the root has been popped, after both children of
\* its sibling
C10_Witness ==
    /\ <<0>> \in popped
    /\ <<1, 0>> \in popped
    /\ <<1, 1>> \in popped

\* C11: a node whose fixing covers all n variables has its vector evaluated
\* by can_prune in the step that pops it, and no vector is evaluated more
\* than once or without its node having been popped.
C11_LeafComparedOnce ==
    /\ [][(pc = "get_next" /\ popped' # popped) =>
            LET nd == nodes[Len(nodes)]
                path == node_path[Len(node_path)]
            IN  Cardinality(DOMAIN nd.fixed_variables) = qubo.n
                    => (path \in DOMAIN leaf_evals' /\ leaf_evals'[path] = 1)]_vars
    /\ [](\A a \in DOMAIN leaf_evals : leaf_evals[a] = 1 /\ a \in popped)

\* C12: solve() leaves on the time budget only from the test at the top of
\* its loop, and then returns at once with the incumbent, its value, the
\* stack and the counters as they were at the test; nothing is popped or
\* changed afterwards.
C12_TimeoutReturnsIncumbent ==
    /\ [][(timed_out' /\ ~timed_out) =>
            /\ pc = "loop" /\ pc' = "done"
            /\ UNCHANGED <<solver_state, popped, node_path>>]_vars
    /\ [][timed_out => UNCHANGED <<solver_state, pc, popped>>]_vars
    /\ [](timed_out => pc = "done")

\* the budget ran out after an improvement of the incumbent, with nodes
\* still on the stack
C12_Witness ==
    /\ timed_out /\ pc = "done"
    /\ Len(nodes) >= 2
    /\ nodes_visited >= 2
    /\ best_solution_value < 0

C14_FathomAfterSolve ==
    [][(nodes_processed' = nodes_processed + 1 /\ Len(nodes') > Len(nodes)) =>
          ~F64Gt(nodes'[Len(nodes')].lower_bound, best_solution_value)]_vars

\* C15: a popped node is pruned exactly when its lower_bound is greater than
\* the incumbent value or its fixing covers all n variables; a node pruned
\* by its bound leaves the incumbent, its value and the evaluation counter
\* as they were.
C15_PruningRule ==
    [][(pc = "get_next" /\ popped' # popped) =>
          LET nd == nodes[Len(nodes)]
              by_bound == F64Gt(nd.lower_bound, best_solution_value)
              leaf == Cardinality(DOMAIN nd.fixed_variables) = qubo.n
          IN  /\ (pc' = "get_next") <=> (by_bound \/ leaf)
              /\ (pc' = "process") <=> ~(by_bound \/ leaf)
              /\ pc' = "process" => node' = nd
              /\ by_bound => UNCHANGED <<best_solution, best_solution_value,
                                         nodes_objective_evales>>]_vars

\* a node with a free variable whose bound equals the incumbent value was
\* popped and handed on to be processed
C15_Witness ==
    /\ pc = "process"
    /\ node.lower_bound = F64(best_solution_value)
    /\ Cardinality(DOMAIN node.fixed_variables) < qubo.n
    /\ nodes_visited >= 2

\* C16: when can_prune evaluates a leaf (all n variables fixed, not fathomed
\* by its bound) the evaluation counter grows by exactly 1, and the incumbent
\* becomes the leaf's vector exactly when the leaf's value is less than the
\* incumbent value.
C16_LeafEvaluationCounted ==
    [][(pc = "get_next" /\ popped' # popped) =>
          LET nd == nodes[Len(nodes)]
              x == LeafVector(qubo, nd)
          IN  (/\ Cardinality(DOMAIN nd.fixed_variables) = qubo.n
               /\ ~F64Gt(nd.lower_bound, best_solution_value))
                  => /\ nodes_objective_evales' = nodes_objective_evales + 1
                     /\ IF Eval(qubo, x) < best_solution_value
                        THEN best_solution' = x /\ best_solution_value' = Eval(qubo, x)
                        ELSE UNCHANGED <<best_solution, best_solution_value>>]_vars

\* C17: nodes_visited grows by one in every pop and in no other step,
\* nodes_processed grows by one in the step that processes a node handed on
\* by get_next_node and in no other step, every such node is processed, and
\* nodes_processed never exceeds nodes_visited.
C17_VisitProcessCounters ==
    /\ [][(pc = "get_next" /\ popped' # popped) =>
            nodes_visited' = nodes_visited + 1 /\ UNCHANGED nodes_processed]_vars
    /\ [][nodes_visited' # nodes_visited => (pc = "get_next" /\ popped' # popped)]_vars
    /\ [][pc = "process" =>
            /\ nodes_processed' = nodes_processed + 1
            /\ cur_path \notin solved /\ solved' = solved \cup {cur_path}
            /\ UNCHANGED nodes_visited]_vars
    /\ [][nodes_processed' # nodes_processed => pc = "process"]_vars
    /\ [](/\ nodes_visited = Cardinality(popped)
          /\ nodes_processed = Cardinality(solved)
          /\ nodes_processed <= nodes_visited)

\* a finished run in which some popped nodes were pruned and others processed
C17_Witness ==
    /\ pc = "done" /\ ~timed_out
    /\ nodes_processed >= 2
    /\ nodes_visited >= nodes_processed + 3

\* one fixing keeps every pair of another
Extends(child, parent) ==
    \A i \in DOMAIN parent : i \in DOMAIN child /\ child[i] = parent[i]

\* C18: the two children pushed for a node keep every (index, value) pair of
\* the node's fixing and map the branching index to 0 in the first and to 1
\* in the second; the fixings of the nodes that stay on the stack are not
\* changed by any step.
C18_MonotoneFixing ==
    /\ [][nodes_processed' = nodes_processed + 1 =>
            LET zero == nodes'[Len(nodes') - 1].fixed_variables
                one == nodes'[Len(nodes')].fixed_variables
            IN  /\ Len(nodes') = Len(nodes) + 2
                /\ Extends(zero, node.fixed_variables)
                /\ Extends(one, node.fixed_variables)
                /\ branch_id' \notin DOMAIN node.fixed_variables
                /\ branch_id' \in DOMAIN zero /\ zero[branch_id'] = 0
                /\ branch_id' \in DOMAIN one /\ one[branch_id'] = 1
                /\ \A i \in DOMAIN zero : zero[i] \in {0, 1}
                /\ \A i \in DOMAIN one : one[i] \in {0, 1}]_vars
    /\ [][run' = run =>
            \A k \in 1 .. Min(Len(nodes), Len(nodes')) :
                nodes'[k].fixed_variables = nodes[k].fixed_variables]_vars

\* a node that already had a fixed variable has just been branched
C18_Witness ==
    /\ pc = "loop"
    /\ cur_path \in branched
    /\ Cardinality(DOMAIN node.fixed_variables) = 1
    /\ Len(nodes) >= 2
    /\ nodes[Len(nodes)].fixed_variables = Insert(node.fixed_variables, branch_id, 1)
    /\ nodes[Len(nodes) - 1].fixed_variables = Insert(node.fixed_variables, branch_id, 0)

\* C19: the matrix and vector handed to the QP solver are 2Q and c, so that
\* 1/2 x^T P x + q^T x is f(x); in particular so at every 0/1 point of the
\* feasible set of a node that is being solved.
C19_QpObjectiveIsF ==
    pc = "process" =>
        /\ \A ij \in Idx(qubo.n) \X Idx(qubo.n) :
              ClarabelWrapper(qubo).q[ij] = 2 * qubo.q[ij]
        /\ ClarabelWrapper(qubo).c = qubo.c
        /\ \A x \in Completions(qubo, node.fixed_variables) :
              QpObjective8(qubo, [i \in Idx(qubo.n) |-> 2 * x[i]]) = 8 * Eval(qubo, x)

RECURSIVE BitXor(_, _)
\* bitwise exclusive or of two naturals
BitXor(a, b) ==
    IF a = 0 /\ b = 0 THEN 0
    ELSE (((a % 2) + (b % 2)) % 2) + 2 * BitXor(a \div 2, b \div 2)

\* C20: the seed given to the generator by the Random strategy is the
\* bitwise exclusive or of options.seed and nodes_visited.
C20_SeedIsXor ==
    (pc = "branched" /\ options.branch_strategy = "Random")
        => RandomSeed(options, nodes_visited) = BitXor(options.seed, nodes_visited)

\* |x_i - 0.5| of the relaxed solution a node carries, in halves
Violation(nd, i) == Abs(nd.solution[i] - 1)

\* C21: on a node with a free variable MostViolated returns a free index
\* whose |x_i - 0.5| is least among the free indices, and the largest of the
\* free indices that attain the least value.
C21_MostViolatedSelection ==
    (pc = "branched" /\ options.branch_strategy = "MostViolated") =>
        /\ branch_id \in Free(qubo, node.fixed_variables)
        /\ \A j \in Free(qubo, node.fixed_variables) :
              /\ Violation(node, branch_id) <= Violation(node, j)
              /\ Violation(node, j) = Violation(node, branch_id) => j <= branch_id

\* two free variables, the first strictly closer to 0.5: index 0 is returned
C21_Witness ==
    /\ pc = "branched" /\ options.branch_strategy = "MostViolated"
    /\ qubo.n = 2 /\ DOMAIN node.fixed_variables = {}
    /\ node.solution[0] = 1 /\ node.solution[1] = 2
    /\ branch_id = 0

\* C22 as stated: of several free variables equally close to 1/2,
\* MostViolated returns the one with the smallest index.
C22_TieSmallestIndex ==
    (pc = "branched" /\ options.branch_strategy = "MostViolated") =>
        \A j \in Free(qubo, node.fixed_variables) :
            Violation(node, j) = Violation(node, branch_id) => branch_id <= j

\* C22 as amended: of several free variables equally close to 1/2,
\* MostViolated returns the one with the largest index.
C22_TieLargestIndex ==
    (pc = "branched" /\ options.branch_strategy = "MostViolated") =>
        \A j \in Free(qubo, node.fixed_variables) :
            Violation(node, j) = Violation(node, branch_id) => j <= branch_id

\* two free variables at the same distance from 0.5: index 1 is returned
C22_Witness ==
    /\ pc = "branched" /\ options.branch_strategy = "MostViolated"
    /\ qubo.n = 2 /\ DOMAIN node.fixed_variables = {}
    /\ node.solution[0] = 1 /\ node.solution[1] = 1
    /\ branch_id = 1

\* C23: on a node with a free variable FirstNotFixed returns the smallest
\* index below n that is not a key of the node's fixed_variables.
C23_FirstNotFixedSelection ==
    (pc = "branched" /\ options.branch_strategy = "FirstNotFixed") =>
        /\ branch_id \in Free(qubo, node.fixed_variables)
        /\ \A j \in Free(qubo, node.fixed_variables) : branch_id <= j

\* index 0 is free and index 1 is fixed: 0 is returned
C23_Witness ==
    /\ pc = "branched" /\ options.branch_strategy = "FirstNotFixed"
    /\ qubo.n = 2 /\ DOMAIN node.fixed_variables = {1}
    /\ branch_id = 0

\* C24: in both entry points that convexify, the diagonal is shifted exactly
\* when the least Hessian eigenvalue is not greater than 0, and the shift is
\* then at least |min_eig| + 1.
C24_ShiftAtLeastOne ==
    convexify.entry # "none" =>
        /\ convexify.applied <=> convexify.min_eig <= 0
        /\ convexify.applied => convexify.shift >= 10 * Abs(convexify.min_eig) + 100

\* C25: in every reachable state, from the construction of the solver through
\* warm_start and every step of solve(), the stored incumbent value is f at
\* the stored incumbent vector.
C25_IncumbentConsistency == best_solution_value = Eval(qubo, best_solution)

\* a warm-started run that has ended with an incumbent that is neither the
\* warm start nor the vector the solver was constructed with
C25_Witness ==
    /\ pc = "done"
    /\ warm.some
    /\ best_solution # warm.x
    /\ best_solution # Zeros(qubo.n)
    /\ best_solution_value < Eval(qubo, warm.x)

\* C26: during one run of solve() on a fresh solver, at the top of every
\* iteration of the main loop nodes_visited + (nodes on the stack) =
\* 1 + 2 * nodes_processed; no node is lost or duplicated (the nodes waiting
\* are pairwise distinct and not yet popped, and together with the popped
\* ones they are the root and the two children of every branched node); and
\* when the run ends on an empty stack nodes_visited = 1 + 2 * nodes_processed.
Waiting == {node_path[i] : i \in DOMAIN node_path}

ChildrenOf(paths) == {Append(path, b) : path \in paths, b \in 0 .. 1}

C26_NodeConservation ==
    /\ pc = "loop" => nodes_visited + Len(nodes) = 1 + 2 * nodes_processed
    /\ pc \notin {"new", "panic"} =>
          /\ Len(node_path) = Len(nodes)
          /\ Cardinality(Waiting) = Len(node_path)
          /\ Waiting \cap popped = {}
          /\ Waiting \cup popped = {<<>>} \cup ChildrenOf(branched)
    /\ (pc = "done" /\ ~timed_out) =>
          /\ Len(nodes) = 0
          /\ nodes_visited = 1 + 2 * nodes_processed

\* a run that ended on an empty stack after the whole tree of a problem with
\* two variables: 7 nodes visited, 3 of them branched
C26_Witness ==
    /\ pc = "done"
    /\ ~timed_out
    /\ Len(nodes) = 0
    /\ qubo.n = 2
    /\ nodes_visited = 7
    /\ nodes_processed = 3

\* C27: during one run of solve() on a fresh solver the stack never holds
\* more than n + 1 nodes, for every problem, strategy and QP answer.
C27_StackBound == Len(nodes) <= qubo.n + 1

\* the bound is attained: three nodes wait for a problem with two variables
C27_Witness ==
    /\ qubo.n = 2
    /\ Len(nodes) = qubo.n + 1
    /\ pc = "loop"

\* C28: every node that get_next_node hands to the main loop has at least one
\* free variable, so the "No variable to branch on" panics of first_not_fixed
\* and random are never reached, also when the persistence of the root
\* already fixes all n variables.
C28_NoBranchOnLeaf ==
    /\ pc = "process" => Free(qubo, node.fixed_variables) # {}
    /\ pc # "panic"
    /\ branch_id # Panic

\* a run whose root node came out of persistence with all n variables fixed:
\* it was popped, discarded as a leaf, and the run ended without a branching
C28_Witness ==
    /\ pc = "done"
    /\ ~timed_out
    /\ qubo.n = 2
    /\ Cardinality(DOMAIN RootNode(qubo).fixed_variables) = qubo.n
    /\ popped = {<<>>}
    /\ nodes_visited = 1
    /\ nodes_processed = 0

=============================================================================
